---- MODULE Spec2Model ----
(***************************************************************************)
(* CEP 3D string-network simulation (src/cep_simulation.py).               *)
(*                                                                         *)
(* Number representation.  The program works on float64 arrays; the model  *)
(* works on exact integers:                                                *)
(*   - a ScalarField is a record [n, v, fine, den]: side n, integer        *)
(*     numerators v[<<i,j,l>>] and fine[<<i,j,l>>] and one common positive *)
(*     denominator den;                                                    *)
(*   - segment endpoints are fixed-point numbers in half-cell units;       *)
(*   - a sample centre whose exact value is a multiple of half a cell      *)
(*     carries the rounding error of its float64 computation, in units of  *)
(*     2^-60, because int() of centre -/+ 3*sigma depends on it;           *)
(*   - the Gaussian kernel is interpolated in a table of exp (KernelTab)   *)
(*     and what one segment adds to one cell is rounded to the nearest     *)
(*     1/KernelDen; cos is tabulated in units of 1/TrigDen and sin in      *)
(*     units of 1/Fine, and the in-place float updates of the oscillation  *)
(*     are rounded to the field's resolution 1/(den*Fine);                 *)
(*   - a cell value is held in two limbs, (v[c] + fine[c]/Fine)/den: the   *)
(*     string deposits, of order 1, and the injections, of order delta_chi *)
(*     = 1e-8, live in one number, as in the float64 cell; fine[c] lies in *)
(*     [-Fine/2, Fine/2) and the arithmetic carries between the limbs;     *)
(*   - den is KernelDen for a field that holds deposits and NormalDen for  *)
(*     a field of zeros that receives its first injection, times the       *)
(*     dilution of every stretch: a float64 cell has a relative            *)
(*     precision, and a field of values of order 1e-8 whose aggregate      *)
(*     nearly cancels keeps the sign of that aggregate;                    *)
(*   - the test dist < 3*sigma is made on the exact distance; where the    *)
(*     exact distance equals 3*sigma and the float computation rounds, the *)
(*     outcome of the test is a choice (Tie);                              *)
(*   - a float that is NaN or infinite is a tagged value, and so is an     *)
(*     exception raised in place of a value;                               *)
(*   - np.random's process-wide generator is a record [x, has_gauss,       *)
(*     gauss]: x is the state of a linear congruential generator of period *)
(*     RngMod, longer than the draws of any run within the bounds, read    *)
(*     and advanced by every uniform draw; has_gauss and gauss are the     *)
(*     cached second variate of the pair a normal draw generates by the    *)
(*     polar method, whose rejection loop consumes a varying number of     *)
(*     uniform draws; a variate is a multiple of 1/NormalDen, computed     *)
(*     from the pair with 29 significant bits, and is 0 only where the     *)
(*     float64 variate is 0.0.                                             *)
(* Grid size, string count, stretch factor and step count are parameters   *)
(* of the program's functions; they are drawn from small sets.             *)
(***************************************************************************)
EXTENDS Integers, Sequences, FiniteSets, TLC

VARIABLES
    cfg,                \* the parameters the phases of a cycle run with
    rng,                \* state of np.random's process-wide generator
    pc,                 \* position in __main__ / run_one_cycle
    grid,               \* run_one_cycle: grid
    step,               \* reheating_oscillations: step
    net_L_pre,          \* run_one_cycle: net_L_pre
    net_L_post_infl,    \* run_one_cycle: net_L_post_infl
    net_L_post_reheat,  \* run_one_cycle: net_L_post_reheat
    result,             \* __main__: result
    cycles,             \* __main__: cycles
    hist,               \* history of the run: generator state at process start
                        \* (rng0) and at each call of run_one_cycle (starts); of
                        \* the current invocation, the phases run, the outcomes of
                        \* the tests decided by rounding, the input of
                        \* reheating_oscillations, the loop indices run, volume
    call,               \* a direct call of one function: its name and arguments
    ret                 \* the value that call returned

vars == <<cfg, rng, pc, grid, step, net_L_pre, net_L_post_infl,
          net_L_post_reheat, result, cycles, hist, call, ret>>

(***************************************************************************)
(* Bounds of the model.                                                    *)
(***************************************************************************)
MaxSize == 2
MaxStrings == 1
MaxFactor == 2
MaxPower == 3
MaxSteps == 2
MaxCycles == 2
MaxSide == 4
MaxSeed == 5

(***************************************************************************)
(* Program constants and representation constants.                         *)
(***************************************************************************)
num_points == 10
KernelDen == 1000
Fine == 1000000000
DeltaChiInv == 100000000
NormalDen == 10000000
TrigDen == 10000000
AmpDen == 1000000000
LambdaScale == 10000
LambdaCube == 1000
CbrtMax == 1048576
KernelUnit == 1000000
KernelStep == 64
LnUnit == 33554432
Ln2 == 23258160
FlOne == 1073741824
FlHalf == 15
RngMod == 32768
RngMul == 12829
RngInc == 15221
SeedBase == 20679

Sigmas == {1, 2}
DefaultSigma == 2
DefaultPower == 3

\* values of names that are not bound yet: every variable keeps one type.
NoAggregate == [num |-> 0, fine |-> 0, den |-> 0]
NoResult == [unbound |-> TRUE]
NoVolume == -1

(***************************************************************************)
(* Integer helpers.                                                        *)
(***************************************************************************)
Abs(x) == IF x < 0 THEN -x ELSE x
Max(a, b) == IF a > b THEN a ELSE b
Min(a, b) == IF a < b THEN a ELSE b

\* int(a/b) of Python for b > 0: truncation toward zero.
TruncDiv(a, b) == IF a >= 0 THEN a \div b ELSE -((-a) \div b)

\* a/b rounded to the nearest integer, b > 0.
Round(a, b) == (2 * a + b) \div (2 * b)

\* a/b rounded to the nearest integer, a tie to the even one, b > 0.
RoundHalfEven(a, b) ==
    LET q == a \div b
        rem == a % b
    IN  IF 2 * rem > b \/ (2 * rem = b /\ q % 2 = 1) THEN q + 1 ELSE q

\* the largest power of two that is at most n, n >= 1.
RECURSIVE Pow2Le(_)
Pow2Le(n) == IF n < 2 THEN 1 ELSE 2 * Pow2Le(n \div 2)

IsPow2(n) == n >= 1 /\ Pow2Le(n) = n

RECURSIVE GCD(_, _)
GCD(a, b) == IF b = 0 THEN a ELSE GCD(b, a % b)

RECURSIVE Pow(_, _)
Pow(b, e) == IF e = 0 THEN 1 ELSE b * Pow(b, e - 1)

Sign(x) == IF x < 0 THEN -1 ELSE IF x > 0 THEN 1 ELSE 0

\* floor of the base-2 logarithm of n, 1 <= n < 4^h, for h a power of two.
RECURSIVE Log2Below(_, _)
Log2Below(n, h) ==
    IF h = 0 THEN 0
    ELSE IF n >= 2^h THEN h + Log2Below(n \div 2^h, h \div 2)
    ELSE Log2Below(n, h \div 2)

\* floor of the base-2 logarithm of n, 1 <= n <= MaxInt.
Log2(n) == Log2Below(n, 16)

\* floor of the square root of n >= 0.
RECURSIVE ISqrt(_)
ISqrt(n) ==
    IF n < 2 THEN n
    ELSE LET s == 2 * ISqrt(n \div 4)
         IN  IF (s + 1) * (s + 1) <= n THEN s + 1 ELSE s

\* x + y = k*c + r for 0 <= x, y < c, with no intermediate above c.
AddMod(x, y, c) ==
    IF x >= c - y THEN [k |-> 1, r |-> x - (c - y)] ELSE [k |-> 0, r |-> x + y]

\* the largest integer of the arithmetic the model is evaluated in.
MaxInt == 2147483647

\* a*b = q*c + r with 0 <= r < c, for a, b >= 0 and c > 0: directly when a*b is
\* at most MaxInt, else by doubling, so that no intermediate exceeds MaxInt.
RECURSIVE MulDivMod(_, _, _)
MulDivMod(a, b, c) ==
    IF b = 0 \/ a <= MaxInt \div b
    THEN [q |-> (a * b) \div c, r |-> (a * b) % c]
    ELSE IF a >= c
    THEN LET m == MulDivMod(a % c, b, c) IN [q |-> (a \div c) * b + m.q, r |-> m.r]
    ELSE IF b = 0 THEN [q |-> 0, r |-> 0]
    ELSE LET h == MulDivMod(a, b \div 2, c)
             d == AddMod(h.r, h.r, c)
             e == IF b % 2 = 1 THEN AddMod(d.r, a, c) ELSE [k |-> 0, r |-> d.r]
         IN  [q |-> 2 * h.q + d.k + e.k, r |-> e.r]

\* a*b/c rounded to the nearest integer, for a, b >= 0 and c > 0.
MulDivRound(a, b, c) ==
    LET m == MulDivMod(a, b, c) IN m.q + (IF m.r >= c - m.r THEN 1 ELSE 0)

(***************************************************************************)
(* Positive reals [m, e] of value m * 2^e with FlOne/2 <= m < FlOne: the   *)
(* intermediate values of a float64 expression whose magnitude varies over *)
(* many orders, kept to 29 significant bits.                               *)
(***************************************************************************)
\* a*b = q*FlOne + r with 0 <= r < FlOne, for 0 <= a, b < FlOne = 4^FlHalf:
\* the product is assembled from the products of the halves of a and b.
MulHigh(a, b) ==
    LET H == 2^FlHalf
        a1 == a \div H
        a0 == a % H
        b1 == b \div H
        b0 == b % H
        mid == a1 * b0 + a0 * b1
        low == (mid % H) * H + a0 * b0
    IN  [q |-> a1 * b1 + mid \div H + low \div FlOne, r |-> low % FlOne]

\* n * 2^e for an integer n, 1 <= n <= MaxInt.
Fl(n, e) ==
    IF n >= FlOne THEN [m |-> n \div 2, e |-> e + 1]
    ELSE LET sh == 2 * FlHalf - 1 - Log2(n) IN [m |-> n * 2^sh, e |-> e - sh]

\* a * b, rounded down.
FlMul(a, b) ==
    LET Product(p) ==
            IF p.q >= FlOne \div 2 THEN [m |-> p.q, e |-> a.e + b.e + 2 * FlHalf]
            ELSE [m |-> 2 * p.q + (2 * p.r) \div FlOne,
                  e |-> a.e + b.e + 2 * FlHalf - 1]
    IN  Product(MulHigh(a.m, b.m))

\* one Newton step y * (2 - m*y) towards y = 2^(4*FlHalf - 1) / m.
RecipStep(m, y) ==
    LET g == Max(0, FlOne \div 2 - MulHigh(m, y).q)
    IN  Min(FlOne - 1, y + MulHigh(y, 2 * g).q)

\* 1 / b: a quotient of the leading halves and two Newton steps.
FlRecip(b) ==
    LET y0 == Min(FlOne - 1, ((FlOne \div 2) \div (b.m \div 2^FlHalf + 1)) * 2^FlHalf)
    IN  Fl(RecipStep(b.m, RecipStep(b.m, y0)), -b.e - (4 * FlHalf - 1))

\* a / b
FlDiv(a, b) == FlMul(a, FlRecip(b))

\* sqrt(a): the integer square root of the mantissa and one Newton step.
FlSqrt(a) ==
    LET odd == a.e % 2 = 1
        mm == IF odd THEN 2 * a.m ELSE a.m
        ee == IF odd THEN a.e - 1 ELSE a.e
        s0 == ISqrt(mm)
    IN  Fl(s0 * 2^FlHalf + ((mm - s0 * s0) * 2^(FlHalf - 1)) \div s0,
           ee \div 2 - FlHalf)

\* the integer part of a, for a < FlOne / 2.
FlFloor(a) ==
    IF a.e >= 0 THEN a.m * 2^a.e
    ELSE IF a.e < -2 * FlHalf THEN 0
    ELSE a.m \div 2^(-a.e)

\* the integer nearest to a, for a < FlOne / 2.
FlRound(a) ==
    IF a.e >= 0 THEN a.m * 2^a.e
    ELSE IF a.e < -2 * FlHalf THEN 0
    ELSE (a.m \div 2^(-a.e - 1) + 1) \div 2

(***************************************************************************)
(* Two-limb numbers [hi, lo] of value hi*Fine + lo.  A cell and an         *)
(* aggregate keep lo in [-Fine/2, Fine/2) (Norm); magnitudes keep lo in    *)
(* [0, Fine).                                                              *)
(***************************************************************************)
Norm(h, l) ==
    LET c == (l + Fine \div 2) \div Fine IN [hi |-> h + c, lo |-> l - c * Fine]

Add(a, b) == Norm(a.hi + b.hi, a.lo + b.lo)
Neg(a) == Norm(-a.hi, -a.lo)
Positive(a) == a.hi > 0 \/ (a.hi = 0 /\ a.lo > 0)
Negative(a) == a.hi < 0 \/ (a.hi = 0 /\ a.lo < 0)

\* abs(a), with lo in [0, Fine).
Mag(a) ==
    LET p == IF Negative(a) THEN Neg(a) ELSE a
    IN  IF p.lo < 0 THEN [hi |-> p.hi - 1, lo |-> p.lo + Fine] ELSE p

\* a * m for a magnitude a and an integer m >= 0.
MulSmall(a, m) ==
    LET l == MulDivMod(a.lo, m, Fine) IN [hi |-> a.hi * m + l.q, lo |-> l.r]

\* a = q*d + r for a magnitude a and an integer d > 0.
DivSmall(a, d) ==
    LET t == MulDivMod(Fine, a.hi % d, d)
        s == AddMod(t.r, a.lo % d, d)
    IN  [q |-> [hi |-> a.hi \div d, lo |-> t.q + a.lo \div d + s.k], r |-> s.r]

\* a <= b for magnitudes.
LimbLe(a, b) == a.hi < b.hi \/ (a.hi = b.hi /\ a.lo <= b.lo)

\* y^3 as a magnitude, 0 <= y < CbrtMax.
Cube(y) == MulSmall(MulSmall([hi |-> 0, lo |-> y], y), y)

\* the largest y in lo .. hi - 1 with y^3 <= q, given lo^3 <= q.
RECURSIVE CbrtBetween(_, _, _)
CbrtBetween(lo, hi, q) ==
    IF hi - lo <= 1 THEN lo
    ELSE LET mid == (lo + hi) \div 2
         IN  IF LimbLe(Cube(mid), q) THEN CbrtBetween(mid, hi, q)
             ELSE CbrtBetween(lo, mid, q)

\* floor of the cube root of the magnitude q, q < CbrtMax^3.
ICbrt(q) == CbrtBetween(0, CbrtMax, q)

(***************************************************************************)
(* np.random: one process-wide generator.                                  *)
(***************************************************************************)
\* the generator states a process starts in: has_gauss is 0 at start-up.
SeedState(seed) ==
    [x |-> (SeedBase + seed * (RngMod \div (MaxSeed + 1))) % RngMod,
     has_gauss |-> FALSE, gauss |-> 0]
RngStates == {SeedState(seed) : seed \in 0 .. MaxSeed}

\* x after one uniform draw.
RngNext(x) == (RngMul * x + RngInc) % RngMod

\* n uniform draws take x to (j.a * x + j.c) % RngMod.
RECURSIVE RngJump(_)
RngJump(n) ==
    IF n = 0 THEN [a |-> 1, c |-> 0]
    ELSE IF n % 2 = 0
         THEN LET h == RngJump(n \div 2)
              IN  [a |-> (h.a * h.a) % RngMod, c |-> (h.a * h.c + h.c) % RngMod]
         ELSE LET h == RngJump(n - 1)
              IN  [a |-> (RngMul * h.a) % RngMod, c |-> RngNext(h.c)]

RngSkip(x, n) == LET j == RngJump(n) IN (j.a * x + j.c) % RngMod

\* state after n uniform draws: they leave the cached variate alone.
RngAt(r, n) == [r EXCEPT !.x = RngSkip(r.x, n)]

\* np.random.uniform(0, size) read in state r, in half-cell units.
Uniform(r, size) == (2 * size * r.x) \div RngMod

\* np.random.rand() < bias read in state r, bias = 0.5 + 1e-8/2.
RandBelowBias(r) == 2 * r.x <= RngMod

\* 2.0 * random_double() - 1.0 for the uniform draw x, in units of 2/RngMod.
Centered(x) == x - RngMod \div 2

\* r2 = x1*x1 + x2*x2 in units of (2/RngMod)^2, and the value of r2 = 1.0.
R2(x1, x2) == x1 * x1 + x2 * x2
R2One == (RngMod \div 2) * (RngMod \div 2)

\* the loop test of the polar method: r2 >= 1.0 or r2 == 0.0.
Rejected(r2) == r2 >= R2One \/ r2 = 0

\* FlOne * (w/3 + w^2/5 + ... ) from the term w^((j-1)/2) / j on, for w a square
\* in units of 1/FlOne, w <= FlOne/9: the series of atanh(t)/t - 1 at w = t*t,
\* cut where its terms are below 1/FlOne.
RECURSIVE AtanhSeries(_, _)
AtanhSeries(w, j) ==
    IF j > 17 THEN 0
    ELSE MulHigh(w, FlOne \div j + AtanhSeries(w, j + 2)).q

\* -2.0 * log(r2) for 0 < r2 < 1.0.  With r2 * 2^k in [1/2, 1) and
\* t = (1 - r2 * 2^k) / (1 + r2 * 2^k), -log(r2) = k*log(2) + 2*atanh(t); for
\* k = 0 the value is the product 4 * t * (atanh(t)/t), which keeps its
\* significant bits as r2 nears 1.0.
MinusTwoLog(r2) ==
    LET k == Log2(R2One) - 1 - Log2(r2)
        rr == r2 * 2^k
        \* from the ratio T, its value t in units of 1/FlOne, and the series at t*t
        FromSeries(T, t, series) ==
            IF k = 0
            THEN [FlMul(T, Fl(FlOne + series, -2 * FlHalf)) EXCEPT !.e = @ + 2]
            ELSE Fl(2 * k * Ln2
                    + (4 * (t + MulHigh(t, series).q)) \div (FlOne \div LnUnit),
                    -Log2(LnUnit))
        FromFloor(T, t) == FromSeries(T, t, AtanhSeries(MulHigh(t, t).q, 3))
        FromRatio(T) == FromFloor(T, FlFloor([T EXCEPT !.e = @ + 2 * FlHalf]))
    IN  FromRatio(FlDiv(Fl(R2One - rr, 0), Fl(R2One + rr, 0)))

\* f = sqrt(-2.0 * log(r2) / r2) for an accepted pair.
Factor(r2) == FlSqrt(FlDiv(MinusTwoLog(r2), Fl(r2, -Log2(R2One))))

\* f * u for u one of x1, x2 of an accepted pair: a standard normal variate in
\* units of 1/NormalDen, rounded to the nearest; 0.0 for u = 0.0 only.
Normal(u, f) ==
    IF u = 0 THEN 0
    ELSE Sign(u) * FlRound(FlMul(FlMul(Fl(Abs(u), -Log2(RngMod \div 2)),
                                       Fl(NormalDen, 0)), f))

\* the polar method from generator value x: pairs of uniform draws are taken
\* until one is accepted; f*x2 is returned and f*x1 is cached.
RECURSIVE Polar(_)
Polar(x) ==
    LET x1 == Centered(x)
        x2 == Centered(RngNext(x))
        r2 == R2(x1, x2)
        Accepted(f) ==
            [z |-> Normal(x2, f),
             rng |-> [x |-> RngSkip(x, 2), has_gauss |-> TRUE, gauss |-> Normal(x1, f)]]
    IN  IF Rejected(r2) THEN Polar(RngSkip(x, 2)) ELSE Accepted(Factor(r2))

\* one standard normal variate drawn in state r (numpy's legacy gauss): the
\* cached variate if there is one, else the polar method.
legacy_gauss(r) ==
    IF r.has_gauss
    THEN [z |-> r.gauss, rng |-> [r EXCEPT !.has_gauss = FALSE, !.gauss = 0]]
    ELSE Polar(r.x)

\* the variates drawn so far and the state of the generator, after one more draw.
Draw(acc) ==
    LET Drawn(g) == [z |-> Append(acc.z, g.z), rng |-> g.rng]
    IN  Drawn(legacy_gauss(acc.rng))

\* draws until cnt variates are drawn: the elements of one line of the array.
RECURSIVE NormalsFrom(_, _)
NormalsFrom(acc, cnt) == IF Len(acc.z) >= cnt THEN acc ELSE NormalsFrom(Draw(acc), cnt)

\* draws, one line of n variates after the other, until cnt are drawn: the
\* lines of one plane of the array.
RECURSIVE LinesFrom(_, _, _)
LinesFrom(acc, n, cnt) ==
    IF Len(acc.z) >= cnt THEN acc
    ELSE LinesFrom(NormalsFrom(acc, Len(acc.z) + n), n, cnt)

\* draws, one plane of n*n variates after the other, until n*n*n are drawn.
RECURSIVE PlanesFrom(_, _)
PlanesFrom(acc, n) ==
    IF Len(acc.z) >= n * n * n THEN acc
    ELSE PlanesFrom(LinesFrom(acc, n, Len(acc.z) + n * n), n)

\* np.random.normal(size=(n, n, n)) drawn in state r: the variates in C order, and
\* the state the draws leave.
Normals(r, n) == PlanesFrom([z |-> <<>>, rng |-> r], n)

(***************************************************************************)
(* ScalarField.                                                            *)
(***************************************************************************)
Cells(n) == (0 .. n - 1) \X (0 .. n - 1) \X (0 .. n - 1)

\* position of a cell in C order.
Flat(c, n) == (c[1] * n + c[2]) * n + c[3]

\* variant: the array of the previous call is reused when it has the right side.
ZerosStale(size) ==
    IF grid.n = size THEN grid
    ELSE [n |-> size, v |-> [c \in Cells(size) |-> 0],
          fine |-> [c \in Cells(size) |-> 0], den |-> KernelDen]

\* np.zeros((size, size, size))
Zeros(size) ==
    [n |-> size, v |-> [c \in Cells(size) |-> 0],
     fine |-> [c \in Cells(size) |-> 0], den |-> KernelDen]

\* the function f as an array: its elements are values, computed when the array
\* is made.
Array(f) == f @@ <<>>

\* the two limbs of cell c of field g.
Cell(g, c) == [hi |-> g.v[c], lo |-> g.fine[c]]

\* field g with the cells given by the function cells.
WithCells(g, cells) ==
    LET stored == Array(cells)
    IN  [g EXCEPT !.v = Array([c \in Cells(g.n) |-> stored[c].hi]),
                  !.fine = Array([c \in Cells(g.n) |-> stored[c].lo])]

\* the sums over the last axis, the last two axes and all three axes.
RECURSIVE SumLine(_, _, _, _)
SumLine(g, i, j, m) ==
    IF m = 0 THEN [hi |-> 0, lo |-> 0]
    ELSE Add(Cell(g, <<i, j, m - 1>>), SumLine(g, i, j, m - 1))

RECURSIVE SumPlane(_, _, _)
SumPlane(g, i, m) ==
    IF m = 0 THEN [hi |-> 0, lo |-> 0]
    ELSE Add(SumLine(g, i, m - 1, g.n), SumPlane(g, i, m - 1))

RECURSIVE SumCube(_, _)
SumCube(g, m) ==
    IF m = 0 THEN [hi |-> 0, lo |-> 0]
    ELSE Add(SumPlane(g, m - 1, g.n), SumCube(g, m - 1))

\* np.sum(grid), as the number (num + fine/Fine)/den.
Sum(g) ==
    LET t == SumCube(g, g.n) IN [num |-> t.hi, fine |-> t.lo, den |-> g.den]

\* np.random.normal(size=(n, n, n)) drawn in state r: the array z, one variate per
\* cell, and the state rng the draws leave.
DrawField(r, n) ==
    LET Shaped(d) == [z |-> [c \in Cells(n) |-> d.z[Flat(c, n) + 1]], rng |-> d.rng]
    IN  Shaped(Normals(r, n))

(***************************************************************************)
(* point_to_line_dist: the SQUARE of the returned norm, as a rational, or  *)
(* NaN.  p, a, b are triples in half-cell units.  exact tells that the     *)
(* float64 result is the exact norm whenever that norm is a float: the     *)
(* clipped projection is 0, 1 or a fraction with a power of two as         *)
(* denominator, so that no operation rounds, or p - closest is zero along  *)
(* every axis on which the segment extends, so that the roundings of       *)
(* closest are far below the resolution of the norm.  Otherwise the float  *)
(* result is the exact norm up to rounding.                                *)
(***************************************************************************)
Dot(u, w) == u[1] * w[1] + u[2] * w[2] + u[3] * w[3]
Sub(u, w) == <<u[1] - w[1], u[2] - w[2], u[3] - w[3]>>

NaN == [nan |-> TRUE, num |-> 0, den |-> 1, exact |-> TRUE]

point_to_line_dist(p, a, b) ==
    LET ab == Sub(b, a)
        ap == Sub(p, a)
        n == Dot(ap, ab)
        d == Dot(ab, ab)
    IN  IF d = 0
        THEN NaN    \* float64 0.0/0.0: proj, closest and the norm are NaN
        ELSE LET cl == IF n < 0 THEN 0 ELSE IF n > d THEN d ELSE n  \* np.clip(proj,0,1)*d
                 diff == <<ap[1] * d - cl * ab[1],
                           ap[2] * d - cl * ab[2],
                           ap[3] * d - cl * ab[3]>>               \* (p - closest)*d
             IN  [nan |-> FALSE, num |-> Dot(diff, diff), den |-> d * d,
                  exact |-> \/ cl = 0 \/ cl = d \/ IsPow2(d \div GCD(cl, d))
                            \/ \A x \in 1 .. 3 : ab[x] = 0 \/ diff[x] = 0]

(***************************************************************************)
(* generate_vorticity_grid.  sigma is given in half-cell units (sg), so    *)
(* the default sigma = 1.0 is sg = 2.  A sample centre is a triple of      *)
(* numerators over CenterDen cells.                                        *)
(***************************************************************************)
\* KernelUnit * exp(-i / KernelStep), rounded, for i = 0 .. 289.
KernelTab == <<
    1000000, 984496, 969233, 954207, 939413, 924849, 910510, 896394, 882497,
    868815, 855345, 842084, 829029, 816176, 803523, 791065, 778801, 766727,
    754840, 743137, 731616, 720273, 709106, 698113, 687289, 676634, 666144,
    655816, 645649, 635639, 625784, 616082, 606531, 597127, 587870, 578756,
    569783, 560949, 552252, 543691, 535261, 526963, 518793, 510750, 502832,
    495036, 487361, 479805, 472367, 465043, 457833, 450735, 443747, 436868,
    430095, 423427, 416862, 410399, 404037, 397773, 391606, 385534, 379557,
    373673, 367879, 362176, 356561, 351033, 345591, 340233, 334958, 329765,
    324652, 319619, 314664, 309786, 304983, 300254, 295599, 291017, 286505,
    282063, 277690, 273385, 269146, 264974, 260866, 256821, 252840, 248920,
    245061, 241261, 237521, 233838, 230213, 226644, 223130, 219671, 216265,
    212912, 209611, 206362, 203162, 200013, 196912, 193859, 190853, 187894,
    184981, 182114, 179290, 176510, 173774, 171080, 168427, 165816, 163246,
    160715, 158223, 155770, 153355, 150977, 148637, 146332, 144064, 141830,
    139631, 137467, 135335, 133237, 131171, 129138, 127136, 125165, 123224,
    121314, 119433, 117581, 115758, 113964, 112197, 110457, 108745, 107059,
    105399, 103765, 102156, 100573, 99013, 97478, 95967, 94479, 93014, 91572,
    90153, 88755, 87379, 86024, 84691, 83378, 82085, 80812, 79560, 78326,
    77112, 75916, 74739, 73581, 72440, 71317, 70211, 69122, 68051, 66996,
    65957, 64935, 63928, 62937, 61961, 61000, 60055, 59124, 58207, 57305,
    56416, 55541, 54680, 53833, 52998, 52176, 51367, 50571, 49787, 49015,
    48255, 47507, 46771, 46046, 45332, 44629, 43937, 43256, 42585, 41925,
    41275, 40635, 40005, 39385, 38774, 38173, 37581, 36999, 36425, 35860,
    35304, 34757, 34218, 33688, 33165, 32651, 32145, 31647, 31156, 30673,
    30197, 29729, 29268, 28815, 28368, 27928, 27495, 27069, 26649, 26236,
    25829, 25429, 25035, 24646, 24264, 23888, 23518, 23153, 22794, 22441,
    22093, 21750, 21413, 21081, 20754, 20433, 20116, 19804, 19497, 19195,
    18897, 18604, 18316, 18032, 17752, 17477, 17206, 16939, 16677, 16418,
    16163, 15913, 15666, 15423, 15184, 14949, 14717, 14489, 14264, 14043,
    13825, 13611, 13400, 13192, 12988, 12786, 12588, 12393, 12201, 12012,
    11825, 11642, 11462, 11284, 11109, 10937
>>

CenterDen == 2 * (num_points - 1)

\* 3*sigma in units of 1/CenterDen cells.
Radius(sg) == 3 * sg * (num_points - 1)

\* The values of np.linspace(0, 1, num_points) are t = fl(s * fl(1/9)) for
\* s < 9 and 1.0 for s = 9; entry s + 1 is 2^60 * (9*t - s).
LinspaceErr == <<0, -64, -128, -192, -256, 256, -384, -1024, -512, 0>>

\* float64 arithmetic next to a multiple of half a cell.  A float is written
\* h/2 + e * 2^-60 with integers h and e.  FloatErr(h, a, b) is e for the double
\* nearest to h/2 + (a/b) * 2^-60 (ties to even), b > 0, |a/b| < 2^58: doubles
\* are 2^-52 * P apart in [P, 2P), P a power of two, and half of that below P.
FloatErrPos(h, a, b) ==
    LET P == Pow2Le(h)
        g == IF a < 0 /\ h = P THEN 64 * P ELSE 128 * P
    IN  RoundHalfEven(a, b * g) * g

FloatErr(h, a, b) ==
    IF h = 0 THEN a \div b
    ELSE IF h < 0 THEN -FloatErrPos(-h, -a, b)
    ELSE FloatErrPos(h, a, b)

\* int() of the float h/2 + e * 2^-60: truncation toward zero.
IntOf(h, e) ==
    IF h % 2 # 0 THEN TruncDiv(h, 2)
    ELSE LET N == h \div 2
         IN  IF e = 0 THEN N
             ELSE IF e > 0 THEN (IF N >= 0 THEN N ELSE N + 1)
             ELSE (IF N > 0 THEN N - 1 ELSE N)

\* one coordinate of center = x1 + t*(x2 - x1): num is the exact value over
\* CenterDen; err is the rounding error (units of 2^-60) of the float result
\* fl(x1 + fl(t * (x2 - x1))) when the exact value is a multiple of half a cell,
\* and is not tracked (0) otherwise, the exact value then being at least 1/18
\* away from every number whose int() differs.
CenterAxis(a, b, s) ==
    LET d == b - a
    IN  [num |-> (num_points - 1) * a + s * d,
         err |-> IF (s * d) % (num_points - 1) # 0 THEN 0
                 ELSE LET q == (s * d) \div (num_points - 1)
                      IN  FloatErr(a + q, FloatErr(q, d * LinspaceErr[s + 1], CenterDen), 1)]

\* center = x1 + t*(x2 - x1) for t the s-th value of linspace.
Center(x1, x2, s) ==
    <<CenterAxis(x1[1], x2[1], s), CenterAxis(x1[2], x2[2], s), CenterAxis(x1[3], x2[3], s)>>

\* int(center[x] - 3*sigma) and int(center[x] + 3*sigma + 1), before clamping.
RawLo(c, sg) ==
    IF c.num % (num_points - 1) # 0 THEN TruncDiv(c.num - Radius(sg), CenterDen)
    ELSE LET h == c.num \div (num_points - 1) - 3 * sg
         IN  IntOf(h, FloatErr(h, c.err, 1))

RawHi(c, sg) ==
    IF c.num % (num_points - 1) # 0
    THEN TruncDiv(c.num + Radius(sg) + CenterDen, CenterDen)
    ELSE LET h == c.num \div (num_points - 1) + 3 * sg
             e == FloatErr(h, c.err, 1)                     \* center[x] + 3*sigma
         IN  IntOf(h + 2, FloatErr(h + 2, e, 1))            \* ... + 1

\* variant: the lower end of the range is not clamped to 0.
WindowLoUnclamped(c, sg, size) == RawLo(c, sg)

\* max(0, int(center[x]-3*sigma)) and min(size, int(center[x]+3*sigma+1)).
WindowLo(c, sg, size) == Max(0, RawLo(c, sg))
WindowHi(c, sg, size) == Min(size, RawHi(c, sg))

\* the index triples the three nested range() loops visit for one sample.
Window(ctr, sg, size) ==
    (WindowLo(ctr[1], sg, size) .. WindowHi(ctr[1], sg, size) - 1)
    \X (WindowLo(ctr[2], sg, size) .. WindowHi(ctr[2], sg, size) - 1)
    \X (WindowLo(ctr[3], sg, size) .. WindowHi(ctr[3], sg, size) - 1)

\* dist = point_to_line_dist(np.array([i,j,k]), x1, x2)
CellDist(p, x1, x2) == point_to_line_dist(<<2 * p[1], 2 * p[2], 2 * p[3]>>, x1, x2)

\* if dist < 3 * sigma  (a comparison with NaN is False), where the rounding of
\* dist cannot change the outcome.
Hit(p, x1, x2, sg) ==
    LET d == CellDist(p, x1, x2)
    IN  (~d.nan) /\ d.num < 9 * sg * sg * d.den

\* The exact distance equals 3*sigma and its float computation rounds: the
\* float dist is 3*sigma or the double below it, depending on the roundings
\* and on the order in which np.dot (BLAS) adds the squares in np.linalg.norm.
Tie(p, x1, x2, sg) ==
    LET d == CellDist(p, x1, x2)
    IN  (~d.nan) /\ (~d.exact) /\ d.num = 9 * sg * sg * d.den

\* np.exp(-dist**2 / (2 * sigma**2)) in units of 1/KernelUnit, for dist < 3*sigma:
\* with x = dist**2 / (2 * sigma**2) = d.num / (2 * d.den * sg * sg), linear
\* interpolation of exp between the table entries on either side of x.
Kernel(p, x1, x2, sg) ==
    LET d == CellDist(p, x1, x2)
        B == d.den * sg * sg
        i == ((KernelStep \div 2) * d.num) \div B
        frac == ((((KernelStep \div 2) * d.num) % B) * 1024) \div B
    IN  KernelTab[i + 1] - Round((KernelTab[i + 1] - KernelTab[i + 2]) * frac, 1024)

Samples == 0 .. num_points - 1

\* the index triples visited by the loops of at least one sample.
Visited(x1, x2, sg, size) ==
    UNION {Window(Center(x1, x2, s), sg, size) : s \in Samples}

\* the visited index triples whose test dist < 3*sigma is decided by rounding.
TieCells(x1, x2, sg, size) == {p \in Visited(x1, x2, sg, size) : Tie(p, x1, x2, sg)}

\* the index triples at which grid[i, j, k] += ... is executed for one segment;
\* tie is the set of index triples at which a float dist that is decided by
\* rounding comes out below 3*sigma.
Writes(x1, x2, sg, size, tie) ==
    {p \in Visited(x1, x2, sg, size) :
        Hit(p, x1, x2, sg) \/ (p \in tie /\ Tie(p, x1, x2, sg))}

\* numpy indexing: an index in [-size, size) addresses a cell (a negative one
\* counts from the end), any other index raises IndexError.
InBounds(p, size) == \A x \in 1 .. 3 : -size <= p[x] /\ p[x] < size
Lands(p, size) == <<p[1] % size, p[2] % size, p[3] % size>>
IndexError(x1, x2, sg, size, tie) ==
    \E p \in Writes(x1, x2, sg, size, tie) : ~InBounds(p, size)

\* what the samples of one segment add at a written index p, in units of
\* 1/KernelDen: one kernel value for every sample whose loops visit p.
Deposit(p, x1, x2, chi, sg, size) ==
    chi * Round(Kernel(p, x1, x2, sg)
                * Cardinality({s \in Samples : p \in Window(Center(x1, x2, s), sg, size)}),
                KernelUnit \div KernelDen)

RECURSIVE SumDeposits(_, _, _, _, _, _)
SumDeposits(ps, x1, x2, chi, sg, size) ==
    IF ps = {} THEN 0
    ELSE LET p == CHOOSE q \in ps : TRUE
         IN  Deposit(p, x1, x2, chi, sg, size)
             + SumDeposits(ps \ {p}, x1, x2, chi, sg, size)

\* lines 31-40: the sample loop of one segment, applied to grid g.
Rasterize(g, x1, x2, chi, sg, tie) ==
    LET w == {p \in Writes(x1, x2, sg, g.n, tie) : InBounds(p, g.n)}
    IN  [g EXCEPT !.v = [c \in Cells(g.n) |->
            g.v[c] + SumDeposits({p \in w : Lands(p, g.n) = c}, x1, x2, chi, sg, g.n)]]

\* lines 26-29: the endpoints and handedness of one segment, drawn from state r.
Segment(r, size) ==
    [x1 |-> <<Uniform(r, size), Uniform(RngAt(r, 1), size), Uniform(RngAt(r, 2), size)>>,
     x2 |-> <<Uniform(RngAt(r, 3), size), Uniform(RngAt(r, 4), size),
              Uniform(RngAt(r, 5), size)>>,
     chi |-> IF RandBelowBias(RngAt(r, 6)) THEN 1 ELSE -1,
     rng |-> RngAt(r, 7)]

\* the outcomes of the tests decided by rounding, for the segments drawn from
\* state r: one set of index triples per segment.
RECURSIVE TieSeqs(_, _, _, _)
TieSeqs(r, size, left, sg) ==
    IF left = 0 THEN {<<>>}
    ELSE LET seg == Segment(r, size)
         IN  {<<tie>> \o rest : tie \in SUBSET TieCells(seg.x1, seg.x2, sg, size),
                                rest \in TieSeqs(seg.rng, size, left - 1, sg)}

\* the loop over the strings; ties[1] belongs to the segment drawn next.
RECURSIVE Strings(_, _, _, _, _)
Strings(g, r, left, sg, ties) ==
    IF left = 0
    THEN [grid |-> g, rng |-> r, error |-> FALSE]
    ELSE LET seg == Segment(r, g.n)
         IN  IF IndexError(seg.x1, seg.x2, sg, g.n, Head(ties))
             THEN [grid |-> g, rng |-> seg.rng, error |-> TRUE]
             ELSE Strings(Rasterize(g, seg.x1, seg.x2, seg.chi, sg, Head(ties)),
                          seg.rng, left - 1, sg, Tail(ties))

generate_vorticity_grid(size, num_strings, sg, r, ties) ==
    Strings(Zeros(size), r, num_strings, sg, ties)

(***************************************************************************)
(* inflation_stretch.                                                      *)
(***************************************************************************)
\* variant: the source index is rounded to the nearest instead of truncated.
SourceIndexRounded(i, old_size, new_size) ==
    Min(old_size - 1, (2 * i * old_size + new_size) \div (2 * new_size))

\* int(i / scale) with scale = new_size / old_size.
SourceIndex(i, old_size, new_size) == (i * old_size) \div new_size

\* variant: the factor is added to the side.
NewSizeSum(old_size, stretch_factor) == old_size + stretch_factor

\* new_size = old_size * stretch_factor
NewSize(old_size, stretch_factor) == old_size * stretch_factor

\* variant: * in place of **.
InvDilutionProduct(stretch_factor, dilution_power) == stretch_factor * dilution_power

\* 1/dilution = stretch_factor ** dilution_power
InvDilution(stretch_factor, dilution_power) == Pow(stretch_factor, dilution_power)

inflation_stretch(g, stretch_factor, dilution_power) ==
    LET old_size == g.n
        new_size == NewSize(old_size, stretch_factor)
    IN  [n |-> new_size,
         v |-> [c \in Cells(new_size) |->
                  g.v[<<SourceIndex(c[1], old_size, new_size),
                        SourceIndex(c[2], old_size, new_size),
                        SourceIndex(c[3], old_size, new_size)>>]],
         fine |-> [c \in Cells(new_size) |->
                     g.fine[<<SourceIndex(c[1], old_size, new_size),
                              SourceIndex(c[2], old_size, new_size),
                              SourceIndex(c[3], old_size, new_size)>>]],
         den |-> g.den * InvDilution(stretch_factor, dilution_power)]

(***************************************************************************)
(* reheating_oscillations.  epsilon = 0.01, omega = 0.2*pi, t = step*0.1.  *)
(***************************************************************************)
\* TrigDen*cos(omega*t) and Fine*sin(omega*t), rounded, for step = 0, 1, 2, ...
CosTab == <<10000000, 9980267, 9921147, 9822873, 9685832, 9510565, 9297765, 9048271,
           8763067, 8443279>>
SinTab == <<0, 62790520, 125333234, 187381315, 248689887, 309016994, 368124553,
           425779292, 481753674, 535826795>>

\* amp = 1 + epsilon*cos(omega*t), as a numerator over AmpDen; epsilon = 0.01.
AmpNum(s) == AmpDen + CosTab[s + 1]

\* delta_chi * (w/Fine) * z for a variate z in units of 1/NormalDen and a factor
\* w in units of 1/Fine, delta_chi = 1e-8: the limbs [hi, lo] of the product in
\* units of 1/(den*Fine), rounded to the nearest.  With D = DeltaChiInv*NormalDen
\* / Fine the product is abs(z)*w/Fine * den/D; the remainders of the divisions
\* are carried.
InjectionOf(z, w, den) ==
    LET D == DeltaChiInv \div (Fine \div NormalDen)
        a == IF w = Fine THEN [q |-> Abs(z), r |-> 0] ELSE MulDivMod(w, Abs(z), Fine)
        b == MulDivMod(a.r, den, Fine)
        Carried(t) ==
            [hi |-> Sign(z) * t.q.hi,
             lo |-> Sign(z) * (t.q.lo + (b.q + t.r + D \div 2) \div D)]
    IN  Carried(DivSmall(MulSmall([hi |-> 0, lo |-> a.q], den), D))

\* inj = delta_chi * sin(omega*t) * z for the array z that np.random.normal
\* returned: the limbs of each element, in units of 1/(g.den*Fine).
Injection(g, z, s) == [c \in Cells(g.n) |-> InjectionOf(z[c], SinTab[s + 1], g.den)]

\* a * amp for a cell a: a + a*(amp - 1), the product rounded to the nearest
\* 1/(den*Fine).
Gain(a, s) ==
    LET h == MulDivMod(Abs(a.hi), AmpNum(s) - AmpDen, AmpDen)
        l == MulDivRound(Abs(a.lo), AmpNum(s) - AmpDen, AmpDen)
    IN  Norm(a.hi + Sign(a.hi) * h.q,
             a.lo + Sign(a.hi) * h.r * (Fine \div AmpDen) + Sign(a.lo) * l)

\* grid *= amp
Amplify(g, s) == WithCells(g, [c \in Cells(g.n) |-> Gain(Cell(g, c), s)])

\* grid += inj
Inject(g, inj) ==
    WithCells(g, [c \in Cells(g.n) |->
                    Norm(g.v[c] + inj[c].hi, g.fine[c] + inj[c].lo)])

\* variant: the injection is added before the field is multiplied by amp.
OscStepAddFirst(g, r, s) ==
    LET d == DrawField(r, g.n)
    IN  [grid |-> Amplify(Inject(g, Injection(g, d.z, s)), s), rng |-> d.rng]

\* one pass of the loop body for step s; the draw advances the generator.
OscStep(g, r, s) ==
    LET d == DrawField(r, g.n)
    IN  [grid |-> Inject(Amplify(g, s), Injection(g, d.z, s)), rng |-> d.rng]

RECURSIVE OscFrom(_, _, _, _)
OscFrom(g, r, s, num_steps) ==
    IF s >= num_steps THEN [grid |-> g, rng |-> r]
    ELSE LET o == OscStep(g, r, s) IN OscFrom(o.grid, o.rng, s + 1, num_steps)

reheating_oscillations(g, num_steps, r) == OscFrom(g, r, 0, num_steps)

(***************************************************************************)
(* compute_lambda, compute_v_peak.  lambda is in units of 0.04/LambdaScale *)
(* (rounded down), v_peak in units of 1/LambdaScale km/s.  A float result  *)
(* that is not finite is tagged "nan" or "inf"; a call that raises is      *)
(* tagged with the exception.                                              *)
(***************************************************************************)
Finite(x) == [kind |-> "finite", val |-> x]
NotFinite(k) == [kind |-> k, val |-> 0]
Raises(e) == [kind |-> e, val |-> 0]

\* (abs(net_L) / volume) ** (1/3) * 0.04.  numpy tells whether an operand of the
\* division is a NumPy scalar, as np.sum and np.prod return: then a zero volume
\* gives NaN for a zero numerator and infinity otherwise, with a warning and no
\* exception; the division of plain Python numbers raises ZeroDivisionError.
\* The cube root is taken of LambdaScale^3 * abs(net_L) / volume, rounded down.
compute_lambda(net_L, volume, numpy) ==
    IF volume = 0
    THEN IF ~numpy THEN Raises("ZeroDivisionError")
         ELSE IF net_L.num = 0 /\ net_L.fine = 0 THEN NotFinite("nan")
         ELSE NotFinite("inf")
    ELSE LET a == DivSmall(Mag([hi |-> net_L.num, lo |-> net_L.fine]), net_L.den)
             d == DivSmall(a.q, volume)
             whole == MulSmall(d.q, LambdaCube)
             part == whole.lo
                     + (LambdaCube * d.r + MulDivMod(a.r, LambdaCube, net_L.den).q)
                       \div volume
         IN  Finite(ICbrt([hi |-> whole.hi + part \div Fine, lo |-> part % Fine]))

\* 220 * (lamb / 0.04)
compute_v_peak(lamb) ==
    IF lamb.kind = "finite" THEN Finite(220 * lamb.val) ELSE lamb

\* the Big Flash Reset of run_one_cycle: grid += 1e-8 * normal(size=grid.shape).
\* A float64 cell keeps 53 significant bits at any magnitude: a field that holds
\* no deposit, every cell 0.0, takes the denominator of the variates, so that
\* what is added to it is kept to 1/(NormalDen*Fine) and not to 1/(KernelDen*Fine).
ResetInject(g, r) ==
    LET h == IF \A c \in Cells(g.n) : g.v[c] = 0 /\ g.fine[c] = 0
             THEN [g EXCEPT !.den = NormalDen] ELSE g
        Injected(d) ==
            [grid |-> Inject(h, [c \in Cells(h.n) |-> InjectionOf(d.z[c], Fine, h.den)]),
             rng |-> d.rng]
    IN  Injected(DrawField(r, g.n))

(***************************************************************************)
(* run_one_cycle as pure composition: the record it returns and the state  *)
(* of the generator it leaves, from generator state r under configuration  *)
(* cf, with the outcomes ties of the tests decided by rounding.            *)
(***************************************************************************)
Volume(g) == g.n * g.n * g.n            \* np.prod(grid.shape)

\* variant: >= in place of >.
HelicityNonNegative(net_L) ==
    IF ~Negative([hi |-> net_L.num, lo |-> net_L.fine]) THEN "+" ELSE "-"

\* '+' if net_L_post_reheat > 0 else '-'
Helicity(net_L) ==
    IF Positive([hi |-> net_L.num, lo |-> net_L.fine]) THEN "+" ELSE "-"

CycleResult(pre, post_infl, post_reheat, lam, v) ==
    [net_L_pre |-> pre, net_L_post_infl |-> post_infl,
     net_L_post_reheat |-> post_reheat, lambda |-> lam, v_peak |-> v,
     helicity |-> Helicity(post_reheat)]

RunCycle(r, cf, ties) ==
    LET foam == generate_vorticity_grid(cf.size, cf.num_strings, cf.sigma, r, ties)
        flash == ResetInject(foam.grid, foam.rng)
        infl == inflation_stretch(flash.grid, cf.stretch_factor, cf.dilution_power)
        reheat == reheating_oscillations(infl, cf.num_steps, flash.rng)
        lam == compute_lambda(Sum(reheat.grid), Volume(reheat.grid), TRUE)
    IN  [result |-> CycleResult(Sum(foam.grid), Sum(infl), Sum(reheat.grid),
                                lam, compute_v_peak(lam)),
         rng |-> reheat.rng]

(***************************************************************************)
(* The cycle driver and the main loop.                                     *)
(***************************************************************************)
\* the configurations of a cycle: the stretched side is at most MaxSide.
Configs ==
    {cf \in [size : 1 .. MaxSize, num_strings : 0 .. MaxStrings, sigma : {DefaultSigma},
             stretch_factor : 1 .. MaxFactor, dilution_power : {DefaultPower},
             num_steps : 0 .. MaxSteps] : cf.size * cf.stretch_factor <= MaxSide}

NoCall == [op |-> "none"]

\* no array is bound to the name grid yet.
NoGrid == [n |-> 0, v |-> <<>>, fine |-> <<>>, den |-> KernelDen]
NoOscIn == [grid |-> NoGrid, rng |-> SeedState(0)]

\* variant: the Big Flash Reset is skipped.
NextPhaseSkipReset(p) ==
    CASE p = "Foam" -> "Stretch"
      [] p = "Reset" -> "Stretch"
      [] p = "Stretch" -> "Oscillate"
      [] p = "Oscillate" -> "Reduce"
      [] p = "Reduce" -> "done"
      [] OTHER -> p

\* the phase that follows phase p in run_one_cycle.
NextPhase(p) ==
    CASE p = "Foam" -> "Reset"
      [] p = "Reset" -> "Stretch"
      [] p = "Stretch" -> "Oscillate"
      [] p = "Oscillate" -> "Reduce"
      [] p = "Reduce" -> "done"
      [] OTHER -> p

Init ==
    /\ cfg \in Configs
    /\ rng \in RngStates
    /\ pc = "main"
    /\ grid = NoGrid
    /\ step = 0
    /\ net_L_pre = NoAggregate
    /\ net_L_post_infl = NoAggregate
    /\ net_L_post_reheat = NoAggregate
    /\ result = NoResult
    /\ cycles = <<>>
    /\ hist = [rng0 |-> rng, starts |-> <<>>, phases |-> <<>>, ties |-> <<>>,
               osc_in |-> NoOscIn, osc_steps |-> <<>>, volume |-> NoVolume]
    /\ call = NoCall
    /\ ret = NoResult

\* __main__: for c in range(...): result = run_one_cycle()  -- the call.
CallRunOneCycle ==
    /\ pc = "main"
    /\ Len(cycles) < MaxCycles
    /\ pc' = "Foam"
    /\ step' = 0
    /\ net_L_pre' = NoAggregate
    /\ net_L_post_infl' = NoAggregate
    /\ net_L_post_reheat' = NoAggregate
    /\ result' = NoResult
    /\ hist' = [hist EXCEPT !.starts = Append(@, rng), !.phases = <<>>, !.ties = <<>>,
                            !.osc_in = NoOscIn, !.osc_steps = <<>>, !.volume = NoVolume]
    /\ UNCHANGED <<cfg, rng, grid, cycles, call, ret>>

\* Phase 1: grid = generate_vorticity_grid(); net_L_pre = np.sum(grid)
Foam ==
    /\ pc = "Foam"
    /\ \E ties \in TieSeqs(rng, cfg.size, cfg.num_strings, cfg.sigma) :
          LET f == generate_vorticity_grid(cfg.size, cfg.num_strings, cfg.sigma, rng, ties)
          IN  /\ grid' = f.grid
              /\ rng' = f.rng
              /\ net_L_pre' = IF f.error THEN NoAggregate ELSE Sum(f.grid)
              /\ pc' = IF f.error THEN "IndexError" ELSE NextPhase("Foam")
              /\ hist' = [hist EXCEPT !.phases = Append(@, "Foam"), !.ties = ties]
    /\ UNCHANGED <<cfg, step, net_L_post_infl, net_L_post_reheat, result, cycles, call, ret>>

\* Phase 3: grid += 1e-8 * np.random.normal(size=grid.shape)
ResetInjection ==
    /\ pc = "Reset"
    /\ LET f == ResetInject(grid, rng)
       IN  /\ grid' = f.grid
           /\ rng' = f.rng
    /\ pc' = NextPhase("Reset")
    /\ hist' = [hist EXCEPT !.phases = Append(@, "Reset")]
    /\ UNCHANGED <<cfg, step, net_L_pre, net_L_post_infl, net_L_post_reheat, result,
                   cycles, call, ret>>

\* Phase 4: grid = inflation_stretch(grid); net_L_post_infl = np.sum(grid);
\* then the call of reheating_oscillations is entered with step 0.
Stretch ==
    /\ pc = "Stretch"
    /\ grid' = inflation_stretch(grid, cfg.stretch_factor, cfg.dilution_power)
    /\ net_L_post_infl' = Sum(grid')
    /\ step' = 0
    /\ pc' = NextPhase("Stretch")
    /\ hist' = [hist EXCEPT !.phases = Append(@, "Stretch"),
                            !.osc_in = [grid |-> grid', rng |-> rng]]
    /\ UNCHANGED <<cfg, rng, net_L_pre, net_L_post_reheat, result, cycles, call, ret>>

\* variant: the loop runs one pass too many.
LoopContinuesInclusive(s, num_steps) == s <= num_steps

\* the loop of reheating_oscillations continues while step < num_steps.
LoopContinues(s, num_steps) == s < num_steps

\* Phase 5, one pass of the loop of reheating_oscillations.
OscillateStep ==
    /\ pc = "Oscillate"
    /\ LoopContinues(step, cfg.num_steps)
    /\ LET o == OscStep(grid, rng, step)
       IN  /\ grid' = o.grid
           /\ rng' = o.rng
    /\ step' = step + 1
    /\ hist' = [hist EXCEPT !.osc_steps = Append(@, step)]
    /\ UNCHANGED <<cfg, pc, net_L_pre, net_L_post_infl, net_L_post_reheat, result,
                   cycles, call, ret>>

\* Phase 5, return of reheating_oscillations; net_L_post_reheat = np.sum(grid)
OscillateReturn ==
    /\ pc = "Oscillate"
    /\ ~LoopContinues(step, cfg.num_steps)
    /\ net_L_post_reheat' = Sum(grid)
    /\ pc' = NextPhase("Oscillate")
    /\ hist' = [hist EXCEPT !.phases = Append(@, "Oscillate")]
    /\ UNCHANGED <<cfg, rng, grid, step, net_L_pre, net_L_post_infl, result, cycles,
                   call, ret>>

\* the aggregate handed to compute_lambda and to the helicity test.
ReducerInput == net_L_post_reheat

\* Phase 6: volume, lambda_val, v_peak and the returned record.
Reduce ==
    /\ pc = "Reduce"
    /\ LET volume == Volume(grid)
           lambda_val == compute_lambda(ReducerInput, volume, TRUE)
           v_peak == compute_v_peak(lambda_val)
       IN  /\ result' = CycleResult(net_L_pre, net_L_post_infl, net_L_post_reheat,
                                    lambda_val, v_peak)
           /\ hist' = [hist EXCEPT !.phases = Append(@, "Reduce"), !.volume = volume]
    /\ pc' = NextPhase("Reduce")
    /\ UNCHANGED <<cfg, rng, grid, step, net_L_pre, net_L_post_infl, net_L_post_reheat,
                   cycles, call, ret>>

\* __main__: cycles.append(result)
Collect ==
    /\ pc = "done"
    /\ cycles' = Append(cycles, result)
    /\ pc' = "main"
    /\ UNCHANGED <<cfg, rng, grid, step, net_L_pre, net_L_post_infl, net_L_post_reheat,
                   result, hist, call, ret>>

Next ==
    \/ CallRunOneCycle
    \/ Foam
    \/ ResetInjection
    \/ Stretch
    \/ OscillateStep
    \/ OscillateReturn
    \/ Reduce
    \/ Collect

Spec == Init /\ [][Next]_vars

\* the position of the interpreter moves: it enters another phase or another
\* pass of the oscillation loop.
Running == pc \in {"main", "Foam", "Reset", "Stretch", "Oscillate", "Reduce", "done"}
Advance ==
    /\ Running
    /\ pc = "main" => Len(cycles) < MaxCycles
    /\ pc' \in {"main", "Foam", "Reset", "Stretch", "Oscillate", "Reduce", "done",
                "IndexError"}
    /\ step' \in {0, step, step + 1}
    /\ <<pc', step'>> # <<pc, step>>

\* the program is single-threaded, has no suspension point and every statement
\* terminates: while it has a statement to run, its position eventually moves.
FairSpec == Spec /\ WF_<<pc, step>>(Advance)

(***************************************************************************)
(* Direct calls of the functions of the module, one call per behaviour,    *)
(* with arguments drawn from bounded sets.                                 *)
(***************************************************************************)
\* coordinates (half-cell units) of endpoints in [0, size): at a face of the
\* cube, next to it, and next to the opposite face.
Coords(size) == {0, 1, 2 * size - 1}
EndPoints(size) == Coords(size) \X Coords(size) \X Coords(size)

Coeffs == {-1, 0, 1}

\* input fields: the affine fields with coefficients in Coeffs, and the field
\* that numbers its cells, with low limbs of the same kind.
TestGrids(size) ==
    {[n |-> size,
      v |-> [c \in Cells(size) |-> k[1] + k[2] * c[1] + k[3] * c[2] + k[4] * c[3]],
      fine |-> [c \in Cells(size) |-> k[4] + k[3] * c[1] + k[2] * c[2] + k[1] * c[3]],
      den |-> KernelDen] : k \in Coeffs \X Coeffs \X Coeffs \X Coeffs}
    \cup {[n |-> size, v |-> [c \in Cells(size) |-> Flat(c, size) + 1],
           fine |-> [c \in Cells(size) |-> -Flat(c, size) - 1],
           den |-> KernelDen]}

\* aggregates of order 1 and of order delta_chi.
Aggregates ==
    [num : {-1600, -1, 0, 1, 1600}, fine : {-7800, 0, 7800},
     den : {KernelDen, 8 * KernelDen}]

Volumes == {n * n * n : n \in 0 .. MaxSize * MaxFactor}

DistCalls ==
    UNION {[op : {"point_to_line_dist"},
            p : {<<2 * c[1], 2 * c[2], 2 * c[3]>> : c \in Cells(size)},
            a : EndPoints(size), b : EndPoints(size)] : size \in 1 .. MaxSize}

RasterizeCalls ==
    UNION {[op : {"rasterize"}, size : {size}, sigma : Sigmas, chi : {-1, 1},
            x1 : EndPoints(size), x2 : EndPoints(size)] : size \in 1 .. MaxSize}

StretchCalls ==
    UNION {[op : {"inflation_stretch"}, grid : TestGrids(size),
            stretch_factor : 1 .. MaxFactor, dilution_power : 0 .. MaxPower]
           : size \in 1 .. MaxSize}

\* numpy: the arguments are NumPy scalars, as run_one_cycle passes them, or
\* plain Python numbers.
LambdaCalls ==
    [op : {"compute_lambda"}, net_L : Aggregates, volume : Volumes, numpy : BOOLEAN]

InitFn ==
    /\ cfg = [size |-> 1, num_strings |-> 0, sigma |-> DefaultSigma,
              stretch_factor |-> 1, dilution_power |-> DefaultPower, num_steps |-> 0]
    /\ rng = SeedState(0)
    /\ pc = "fn"
    /\ grid = NoGrid
    /\ step = 0
    /\ net_L_pre = NoAggregate
    /\ net_L_post_infl = NoAggregate
    /\ net_L_post_reheat = NoAggregate
    /\ result = NoResult
    /\ cycles = <<>>
    /\ hist = [rng0 |-> rng, starts |-> <<>>, phases |-> <<>>, ties |-> <<>>,
               osc_in |-> NoOscIn, osc_steps |-> <<>>, volume |-> NoVolume]
    /\ call \in DistCalls \cup RasterizeCalls \cup StretchCalls \cup LambdaCalls
    /\ ret = NoResult

CallPointToLineDist ==
    /\ pc = "fn"
    /\ call.op = "point_to_line_dist"
    /\ ret' = point_to_line_dist(call.p, call.a, call.b)
    /\ pc' = "returned"
    /\ UNCHANGED <<cfg, rng, grid, step, net_L_pre, net_L_post_infl, net_L_post_reheat,
                   result, cycles, hist, call>>

\* the body of the segment loop of generate_vorticity_grid on a zero grid.
CallRasterize ==
    /\ pc = "fn"
    /\ call.op = "rasterize"
    /\ \E tie \in SUBSET TieCells(call.x1, call.x2, call.sigma, call.size) :
          ret' = [grid |-> Rasterize(Zeros(call.size), call.x1, call.x2, call.chi,
                                     call.sigma, tie),
                  writes |-> Writes(call.x1, call.x2, call.sigma, call.size, tie),
                  error |-> IndexError(call.x1, call.x2, call.sigma, call.size, tie)]
    /\ pc' = "returned"
    /\ UNCHANGED <<cfg, rng, grid, step, net_L_pre, net_L_post_infl, net_L_post_reheat,
                   result, cycles, hist, call>>

CallInflationStretch ==
    /\ pc = "fn"
    /\ call.op = "inflation_stretch"
    /\ ret' = inflation_stretch(call.grid, call.stretch_factor, call.dilution_power)
    /\ pc' = "returned"
    /\ UNCHANGED <<cfg, rng, grid, step, net_L_pre, net_L_post_infl, net_L_post_reheat,
                   result, cycles, hist, call>>

CallComputeLambda ==
    /\ pc = "fn"
    /\ call.op = "compute_lambda"
    /\ LET lambda_val == compute_lambda(call.net_L, call.volume, call.numpy)
       IN  ret' = [lambda_val |-> lambda_val, v_peak |-> compute_v_peak(lambda_val)]
    /\ pc' = "returned"
    /\ UNCHANGED <<cfg, rng, grid, step, net_L_pre, net_L_post_infl, net_L_post_reheat,
                   result, cycles, hist, call>>

NextFn ==
    \/ CallPointToLineDist
    \/ CallRasterize
    \/ CallInflationStretch
    \/ CallComputeLambda

SpecFn == InitFn /\ [][NextFn]_vars

(***************************************************************************)
(* Properties.                                                             *)
(***************************************************************************)
ExpectedPhases == <<"Foam", "Reset", "Stretch", "Oscillate", "Reduce">>

ResultFields ==
    {"net_L_pre", "net_L_post_infl", "net_L_post_reheat", "lambda", "v_peak", "helicity"}

PhaseIndex(p) == CHOOSE i \in 1 .. Len(ExpectedPhases) : ExpectedPhases[i] = p

Returned(op) == pc = "returned" /\ call.op = op

Norm2(u) == Dot(u, u)

\* Inside an invocation the phases executed so far are a prefix of Foam,
\* Reset-Injection, Stretch, Oscillate, Reduce, the phase about to run is the next
\* one of that list, and at the terminal state all five have run exactly once and
\* the returned record has the six fields of a CycleResult.
C1_PhasesSoFar ==
    pc \in {"Foam", "Reset", "Stretch", "Oscillate", "Reduce", "done"} =>
        /\ Len(hist.phases) <= Len(ExpectedPhases)
        /\ hist.phases = SubSeq(ExpectedPhases, 1, Len(hist.phases))
        /\ pc # "done" => Len(hist.phases) = PhaseIndex(pc) - 1
        /\ pc = "done" => /\ hist.phases = ExpectedPhases
                          /\ DOMAIN result = ResultFields

\* C1: every invocation of run_one_cycle runs the five phases in order, each
\* exactly once, and reaches the terminal state that returns one CycleResult.
C1_CycleLinear ==
    /\ [](pc # "IndexError" /\ C1_PhasesSoFar)
    /\ (pc = "Foam") ~> (pc = "done")

\* a second invocation has reached its terminal state.
C1_Witness ==
    pc = "done" /\ Len(cycles) = 1 /\ hist.phases = ExpectedPhases /\ cfg.num_steps >= 2

\* C2: the side of the field is N after Foam and after Reset-Injection, N*k after
\* Stretch, during every Oscillate step and at Reduce, the array being cubic, and the
\* volume the reducer uses is (N*k)^3.
C2_SideLaw ==
    /\ pc \in {"Reset", "Stretch"} =>
          grid.n = cfg.size /\ DOMAIN grid.v = Cells(cfg.size)
    /\ pc \in {"Oscillate", "Reduce", "done"} =>
          /\ grid.n = cfg.size * cfg.stretch_factor
          /\ DOMAIN grid.v = Cells(cfg.size * cfg.stretch_factor)
    /\ pc = "done" =>
          hist.volume = (cfg.size * cfg.stretch_factor) * (cfg.size * cfg.stretch_factor)
                        * (cfg.size * cfg.stretch_factor)

\* a field of side 2 stretched by 2 has gone through two oscillation steps.
C2_Witness ==
    /\ pc = "Oscillate" /\ step = 2
    /\ cfg.size = 2 /\ cfg.stretch_factor = 2 /\ grid.n = 4

\* C3: output[i,j,l] = input[floor(i/k), floor(j/k), floor(l/k)] / k^p for every
\* output index, the source index lies in [0,N), and every input cell is the source
\* of exactly k^3 output cells.
C3_NearestNeighbour ==
    Returned("inflation_stretch") =>
        LET g == call.grid
            k == call.stretch_factor
            N == g.n
            Floor(c) == <<c[1] \div k, c[2] \div k, c[3] \div k>>
            Source(c) == <<SourceIndex(c[1], N, ret.n), SourceIndex(c[2], N, ret.n),
                           SourceIndex(c[3], N, ret.n)>>
        IN  /\ ret.n = N * k
            /\ DOMAIN ret.v = Cells(N * k)
            /\ \A c \in Cells(N * k) :
                  /\ Source(c) = Floor(c)
                  /\ Floor(c) \in Cells(N)
                  /\ ret.v[c] * g.den * Pow(k, call.dilution_power)
                        = g.v[Floor(c)] * ret.den
                  /\ ret.fine[c] * g.den * Pow(k, call.dilution_power)
                        = g.fine[Floor(c)] * ret.den
            /\ \A src \in Cells(N) :
                  Cardinality({c \in Cells(N * k) : Source(c) = src}) = k * k * k

\* a field of side 2 with distinct cells was stretched by a factor 2.
C3_Witness ==
    /\ Returned("inflation_stretch")
    /\ call.grid.n = 2 /\ call.stretch_factor = 2 /\ call.dilution_power = 3
    /\ \A c, d \in Cells(2) : c # d => /\ call.grid.v[c] # call.grid.v[d]
                                        /\ call.grid.fine[c] # call.grid.fine[d]

\* C4: sum(output) = (1/k^p) * k^3 * sum(input); with p = 3 the sum is preserved,
\* and with k = 1 the output equals the input.
C4_DilutionLaw ==
    Returned("inflation_stretch") =>
        LET g == call.grid
            k == call.stretch_factor
            p == call.dilution_power
            sin == Sum(g)
            sout == Sum(ret)
        IN  /\ sout.den > 0
            /\ sout.num * sin.den * Pow(k, p) = k * k * k * sin.num * sout.den
            /\ sout.fine * sin.den * Pow(k, p) = k * k * k * sin.fine * sout.den
            /\ p = 3 => /\ sout.num * sin.den = sin.num * sout.den
                        /\ sout.fine * sin.den = sin.fine * sout.den
            /\ k = 1 => /\ ret.n = g.n
                        /\ \A c \in Cells(g.n) :
                              /\ ret.v[c] * g.den = g.v[c] * ret.den
                              /\ ret.fine[c] * g.den = g.fine[c] * ret.den

\* a field with a non-zero sum was stretched by 2 with a dilution power other than 3.
C4_Witness ==
    /\ Returned("inflation_stretch")
    /\ call.stretch_factor = 2 /\ call.dilution_power = 2 /\ call.grid.n = 2
    /\ Sum(call.grid).num # 0 /\ Sum(call.grid).fine # 0

\* the field and the generator state after m passes, as the claim describes them:
\* pass s multiplies by gain(s), then adds the injection of pass s.
RECURSIVE C5_Expected(_, _, _)
C5_Expected(g, r, m) ==
    IF m = 0 THEN [grid |-> g, rng |-> r]
    ELSE LET prev == C5_Expected(g, r, m - 1)
             s == m - 1
             gained == [c \in Cells(prev.grid.n) |-> Gain(Cell(prev.grid, c), s)]
             d == DrawField(prev.rng, prev.grid.n)
             inj == Injection(prev.grid, d.z, s)
         IN  [grid |-> WithCells(prev.grid, [c \in Cells(prev.grid.n) |->
                                    Norm(gained[c].hi + inj[c].hi, gained[c].lo + inj[c].lo)]),
              rng |-> d.rng]

\* C5: reheating_oscillations performs exactly M updates for s = 0..M-1 in
\* increasing order, each one field <- field*gain(s) + inj(s); for M = 0 the field
\* is returned unchanged and no random value is drawn.
C5_OscillationLaw ==
    pc \in {"Oscillate", "Reduce"} =>
        /\ step <= cfg.num_steps
        /\ pc = "Reduce" => step = cfg.num_steps
        /\ hist.osc_steps = [i \in 1 .. step |-> i - 1]
        /\ LET e == C5_Expected(hist.osc_in.grid, hist.osc_in.rng, step)
           IN  grid = e.grid /\ rng = e.rng
        /\ (pc = "Reduce" /\ cfg.num_steps = 0) =>
              grid = hist.osc_in.grid /\ rng = hist.osc_in.rng

\* two updates have been performed and have changed the field.
C5_Witness ==
    /\ pc = "Reduce" /\ cfg.num_steps = 2 /\ hist.osc_steps = <<0, 1>>
    /\ grid # hist.osc_in.grid

\* C6: the sign label is "+" exactly when the recorded final aggregate is > 0, and
\* lambda and v_peak are computed from that final aggregate (the sum of the field
\* after oscillation) and from the volume of that field.
C6_ReducerUsesFinalAggregate ==
    pc = "done" =>
        /\ result.net_L_post_reheat = Sum(grid)
        /\ result.net_L_post_reheat.den > 0
        /\ result.helicity \in {"+", "-"}
        /\ (result.helicity = "+") <=>
              \/ result.net_L_post_reheat.num > 0
              \/ result.net_L_post_reheat.num = 0 /\ result.net_L_post_reheat.fine > 0
        /\ result.lambda = compute_lambda(result.net_L_post_reheat, Volume(grid), TRUE)
        /\ result.v_peak = compute_v_peak(result.lambda)

\* a cycle whose final aggregate is exactly 0 has been labelled "-".
C6_Witness ==
    /\ pc = "done" /\ result.helicity = "-"
    /\ result.net_L_post_reheat.num = 0 /\ result.net_L_post_reheat.fine = 0

\* C7: compute_lambda called with volume 0 ends in an error and returns no lambda
\* or v_peak value, finite, NaN or infinite.  Any exception is taken for the error
\* state, whatever its label.
C7_ZeroVolumeRejected ==
    (Returned("compute_lambda") /\ call.volume = 0) =>
        /\ ret.lambda_val.kind \notin {"finite", "nan", "inf"}
        /\ ret.v_peak.kind \notin {"finite", "nan", "inf"}

\* C8: for A = B point_to_line_dist returns |P - A|, and a segment with coinciding
\* endpoints deposits its kernel on every visited cell closer than 3 sigma to it.
C8_DegenerateSegment ==
    /\ (Returned("point_to_line_dist") /\ call.a = call.b) =>
          (~ret.nan) /\ ret.num = Norm2(Sub(call.p, call.a)) * ret.den
    /\ (Returned("rasterize") /\ call.x1 = call.x2) =>
          \A p \in Visited(call.x1, call.x2, call.sigma, call.size) :
              Norm2(Sub(<<2 * p[1], 2 * p[2], 2 * p[3]>>, call.x1))
                    < 9 * call.sigma * call.sigma
                 => p \in ret.writes

\* C9 as stated: the CycleResult of every cycle is the one the cycle would return
\* if no cycle had run before it, that is, started from the process's initial state.
C9_CyclesIndependent ==
    pc = "done" => result = RunCycle(hist.rng0, cfg, hist.ties).result

\* C9 amended: the only state a cycle reads that an earlier cycle wrote is the state
\* of the process-wide random source: the CycleResult, and the generator state the
\* cycle leaves, are those of run_one_cycle started on a fresh field from the
\* generator state found at the call.
C9_OnlyRngCarriesOver ==
    /\ Len(hist.starts) >= 1 => hist.starts[1] = hist.rng0
    /\ pc = "done" =>
          LET rc == RunCycle(hist.starts[Len(hist.starts)], cfg, hist.ties)
          IN  result = rc.result /\ rng = rc.rng

\* the second cycle has returned a record that differs from the first one's.
C9_Witness ==
    pc = "done" /\ Len(cycles) = 1 /\ result # cycles[1]

\* C10: every index written by the rasteriser satisfies 0 <= i,j,k < N, no write
\* wraps or leaves the array, and the array stays N x N x N.
C10_WritesInBounds ==
    Returned("rasterize") =>
        /\ \A p \in ret.writes : \A x \in 1 .. 3 : 0 <= p[x] /\ p[x] < call.size
        /\ ~ret.error
        /\ ret.grid.n = call.size
        /\ DOMAIN ret.grid.v = Cells(call.size)

\* a segment with a sample whose neighbourhood is cut at the low face and a sample
\* whose neighbourhood is cut at the high face has written cells.
C10_Witness ==
    /\ Returned("rasterize")
    /\ ret.writes # {}
    /\ \E s \in Samples, x \in 1 .. 3 :
          RawLo(Center(call.x1, call.x2, s)[x], call.sigma) < 0
    /\ \E s \in Samples, x \in 1 .. 3 :
          RawHi(Center(call.x1, call.x2, s)[x], call.sigma) > call.size

====
